---- MODULE Spec2Model ----
(***************************************************************************)
(* skypies/adsb: the flat message buffer (package msgbuffer) that caches   *)
(* sparse ADS-B fields per sender, synthesises composite messages from     *)
(* position messages, ages out quiet senders and flushes the accumulated   *)
(* composites down a channel.                                              *)
(*                                                                         *)
(* Time is a discrete clock `now`; one tick is half a second, so that      *)
(* "less than one second" has a non-trivial case.  A call reads the clock  *)
(* once, except that a call blocked in the channel send of flush resumes   *)
(* at whatever time the consumer makes room.  Go's zero time.Time is       *)
(* ZeroTime, which lies further in the past than any configured duration.  *)
(* Of adsb.Msg the model keeps the fields the buffer reads or writes       *)
(* (Altitude, the logged timestamp and the four status flags are copied    *)
(* verbatim by the code and are left out).                                 *)
(***************************************************************************)
EXTENDS Integers, Sequences, FiniteSets, TLC

\* time.Second, in ticks.
Second == 2

\* ------------------------------------------------------------------ bounds
\* Ticks the clock may advance after construction.
Horizon == 4
\* Largest duration (in ticks) a configuration field is given.
MaxDur == Second + 1
\* Most composites held in Messages before the producer stops adding.
MaxPending == 2
\* How far (in ticks) a generation timestamp may lie in the past.
MaxLate == Second

\* ------------------------------------------------------------- time base
\* time.Time{}: the value of lastFlush and lastAgeOut after NewMsgBuffer.
ZeroTime == 0
\* The clock at construction: so late that time.Since(ZeroTime) exceeds
\* every duration of the model.
Epoch == ZeroTime + MaxDur + Second + MaxLate
\* time.Since(t) read at clock value clk.
Since(t, clk) == clk - t

\* ------------------------------------------------------------ adsb.Msg
Icaos == {"A81BD0", "ABEEF0"}
\* "_._._._." : the cached value for an explicitly blank callsign.
BlankCallsign == "_._._._."

\* A cell of an SBS1 line is <<>> when empty, <<v>> when it holds v (for a
\* string cell v is the cell after strings.TrimSpace, which may be "").
FromSBS1(r) ==
    [ Type            |-> r.Type,
      SubType         |-> r.SubType,
      Icao24          |-> r.Icao24,
      GeneratedTimestampUTC |-> r.Gen,
      hasCallsign     |-> r.Callsign # <<>>,
      Callsign        |-> IF r.Callsign # <<>> THEN r.Callsign[1] ELSE "",
      hasSquawk       |-> r.Squawk # <<>>,
      Squawk          |-> IF r.Squawk # <<>> THEN r.Squawk[1] ELSE "",
      hasGroundSpeed  |-> r.GroundSpeed # <<>>,
      GroundSpeed     |-> IF r.GroundSpeed # <<>> THEN r.GroundSpeed[1] ELSE 0,
      hasTrack        |-> r.Track # <<>>,
      Track           |-> IF r.Track # <<>> THEN r.Track[1] ELSE 0,
      hasVerticalRate |-> r.VerticalRate # <<>>,
      VerticalRate    |-> IF r.VerticalRate # <<>> THEN r.VerticalRate[1] ELSE 0,
      hasPosition     |-> r.Position # <<>>,
      Position        |-> IF r.Position # <<>> THEN r.Position[1] ELSE 0 ]

HasPosition(m)     == m.hasPosition
HasCallsign(m)     == m.hasCallsign
HasSquawk(m)       == m.hasSquawk
HasGroundSpeed(m)  == m.hasGroundSpeed
HasTrack(m)        == m.hasTrack
HasVerticalRate(m) == m.hasVerticalRate

\* adsb.CompositeMsg{Msg: m}: the embedded message plus ReceiverName.
CompositeMsg(m) == [ Msg |-> m, ReceiverName |-> "" ]

\* ------------------------------------------------------------ ADSBSender
\* &ADSBSender{LastSeen: t}: every cached field at its zero value.
ADSBSender(t) ==
    [ LastSeen |-> t, LastGroundSpeed |-> 0, LastVerticalSpeed |-> 0,
      LastTrack |-> 0, LastCallsign |-> "", LastSquawk |-> "" ]

\* The part of updateFromMsg under `if m.Type == "MSG_foooo"`.
updateFromSubType(s, m) ==
    IF m.Type # "MSG_foooo" THEN s
    ELSE IF m.SubType = 1 THEN
        [s EXCEPT !.LastCallsign = IF m.Callsign = "" THEN BlankCallsign ELSE m.Callsign]
    ELSE IF m.SubType = 2 THEN
        [s EXCEPT !.LastGroundSpeed = IF HasGroundSpeed(m) THEN m.GroundSpeed ELSE @,
                  !.LastTrack       = IF HasTrack(m) THEN m.Track ELSE @]
    ELSE IF m.SubType = 4 THEN
        [s EXCEPT !.LastGroundSpeed   = IF HasGroundSpeed(m) THEN m.GroundSpeed ELSE @,
                  !.LastVerticalSpeed = IF HasVerticalRate(m) THEN m.VerticalRate ELSE @,
                  !.LastTrack         = IF HasTrack(m) THEN m.Track ELSE @]
    ELSE IF m.SubType = 6 THEN
        [s EXCEPT !.LastSquawk = IF m.Squawk # "" THEN m.Squawk ELSE @]
    ELSE s

\* (variant: a blank callsign is cached as it is)
updateFromMsg_NoSentinel(s, m, clk) ==
    updateFromSubType(
        [s EXCEPT !.LastSeen = clk,
                  !.LastCallsign      = IF HasCallsign(m) THEN m.Callsign ELSE @,
                  !.LastSquawk        = IF HasSquawk(m) THEN m.Squawk ELSE @,
                  !.LastGroundSpeed   = IF HasGroundSpeed(m) THEN m.GroundSpeed ELSE @,
                  !.LastTrack         = IF HasTrack(m) THEN m.Track ELSE @,
                  !.LastVerticalSpeed = IF HasVerticalRate(m) THEN m.VerticalRate ELSE @],
        m)

\* (variant: a field is overwritten when the message's value is not zero)
updateFromMsg_ValueGated(s, m, clk) ==
    updateFromSubType(
        [s EXCEPT !.LastSeen = clk,
                  !.LastCallsign = IF HasCallsign(m)
                                   THEN IF Len(m.Callsign) > 0 THEN m.Callsign
                                        ELSE BlankCallsign
                                   ELSE @,
                  !.LastSquawk        = IF m.Squawk # "" THEN m.Squawk ELSE @,
                  !.LastGroundSpeed   = IF m.GroundSpeed # 0 THEN m.GroundSpeed ELSE @,
                  !.LastTrack         = IF m.Track # 0 THEN m.Track ELSE @,
                  !.LastVerticalSpeed = IF m.VerticalRate # 0 THEN m.VerticalRate ELSE @],
        m)

\* (variant: only a position message refreshes LastSeen)
updateFromMsg_NoRefresh(s, m, clk) ==
    updateFromSubType(
        [s EXCEPT !.LastSeen = IF HasPosition(m) THEN clk ELSE @,
                  !.LastCallsign = IF HasCallsign(m)
                                   THEN IF Len(m.Callsign) > 0 THEN m.Callsign
                                        ELSE BlankCallsign
                                   ELSE @,
                  !.LastSquawk        = IF HasSquawk(m) THEN m.Squawk ELSE @,
                  !.LastGroundSpeed   = IF HasGroundSpeed(m) THEN m.GroundSpeed ELSE @,
                  !.LastTrack         = IF HasTrack(m) THEN m.Track ELSE @,
                  !.LastVerticalSpeed = IF HasVerticalRate(m) THEN m.VerticalRate ELSE @],
        m)

updateFromMsg(s, m, clk) ==
    updateFromSubType(
        [s EXCEPT !.LastSeen = clk,
                  !.LastCallsign = IF HasCallsign(m)
                                   THEN IF Len(m.Callsign) > 0 THEN m.Callsign
                                        ELSE BlankCallsign
                                   ELSE @,
                  !.LastSquawk        = IF HasSquawk(m) THEN m.Squawk ELSE @,
                  !.LastGroundSpeed   = IF HasGroundSpeed(m) THEN m.GroundSpeed ELSE @,
                  !.LastTrack         = IF HasTrack(m) THEN m.Track ELSE @,
                  !.LastVerticalSpeed = IF HasVerticalRate(m) THEN m.VerticalRate ELSE @],
        m)

\* (variant: the gate on the cached ground speed, track and callsign is on)
maybeCreateComposite_Gated(s, m) ==
    IF ~HasPosition(m) THEN <<>>
    ELSE IF s.LastGroundSpeed = 0 \/ s.LastTrack = 0 \/ s.LastCallsign = "" THEN <<>>
    ELSE << CompositeMsg(
              [m EXCEPT !.GroundSpeed  = IF @ = 0 THEN s.LastGroundSpeed ELSE @,
                        !.VerticalRate = IF @ = 0 THEN s.LastVerticalSpeed ELSE @,
                        !.Track        = IF @ = 0 THEN s.LastTrack ELSE @,
                        !.Callsign     = IF @ = "" THEN s.LastCallsign ELSE @,
                        !.Squawk       = IF @ = "" THEN s.LastSquawk ELSE @]) >>

\* (variant: a composite is built for a message without position as well)
maybeCreateComposite_NoGate(s, m) ==
    << CompositeMsg(
          [m EXCEPT !.GroundSpeed  = IF @ = 0 THEN s.LastGroundSpeed ELSE @,
                    !.VerticalRate = IF @ = 0 THEN s.LastVerticalSpeed ELSE @,
                    !.Track        = IF @ = 0 THEN s.LastTrack ELSE @,
                    !.Callsign     = IF @ = "" THEN s.LastCallsign ELSE @,
                    !.Squawk       = IF @ = "" THEN s.LastSquawk ELSE @]) >>

\* The composite for m, as a sequence: <<>> is the nil result.
maybeCreateComposite(s, m) ==
    IF ~HasPosition(m) THEN <<>>
    ELSE << CompositeMsg(
              [m EXCEPT !.GroundSpeed  = IF @ = 0 THEN s.LastGroundSpeed ELSE @,
                        !.VerticalRate = IF @ = 0 THEN s.LastVerticalSpeed ELSE @,
                        !.Track        = IF @ = 0 THEN s.LastTrack ELSE @,
                        !.Callsign     = IF @ = "" THEN s.LastCallsign ELSE @,
                        !.Squawk       = IF @ = "" THEN s.LastSquawk ELSE @]) >>

\* ------------------------------------------------------------- MsgBuffer
VARIABLES
    now,                \* the wall clock
    MinPublishInterval, MaxMessageAge, MaxQuietTime,
    Senders,            \* map IcaoId -> ADSBSender
    Messages,           \* the buffer of composites
    FlushChannel,       \* [open, cap, buf]: nil when ~open, else the queued batches
    lastFlush, lastAgeOut,
    pc,                 \* "idle", or "send": the caller is blocked in flush's send
    ev,                 \* what the step just taken (or the call in progress) did
    hadPosition,        \* the identifiers some Add so far carried a position for
    blanked             \* [since, live]: the senders whose cache took the blank-callsign
                        \* value and no non-empty callsign since (live: nor an ageout)

\* The track buffer (package trackbuffer); its lastFlush is trackLastFlush here.
VARIABLES
    Tracks,             \* map IcaoId -> the Messages of the Track
    MaxAge,
    trackLastFlush,
    sent,               \* the batches the track buffer call made last sent down flushChan
    tev                 \* [op, suppressed]: the track buffer call made last

\* AddMessage and Flush as two threads of control.
VARIABLES
    mutex,              \* TRUE: the caller serializes the calls; FALSE: it does not
    pcAdd, pcFlush,     \* the statement each call is at
    addMsg,             \* AddMessage's m, as <<m>>
    addTrack,           \* AddMessage's track: "nil", or "ptr" to the Track looked up
    toRemove,           \* Flush's toRemove
    removed,            \* the Tracks returned by RemoveTracks that are not sent yet
    strayed             \* composites appended to a Track that is out of reach

\* The transport of a batch: [stage, batch, str, msgs].
VARIABLES codec

trackvars == << Tracks, MaxAge, trackLastFlush, sent, tev >>
racevars == << mutex, pcAdd, pcFlush, addMsg, addTrack, toRemove, removed, strayed >>
msgbuffer == << MinPublishInterval, MaxMessageAge, MaxQuietTime, Senders, Messages,
                FlushChannel, lastFlush, lastAgeOut, pc, ev, hadPosition, blanked >>
vars == << now, MinPublishInterval, MaxMessageAge, MaxQuietTime, Senders, Messages,
           FlushChannel, lastFlush, lastAgeOut, pc, ev, hadPosition, blanked,
           trackvars, racevars, codec >>
\* What a call of the flat buffer, and the clock, leave alone.
others == << trackvars, racevars, codec >>
config == << MinPublishInterval, MaxMessageAge, MaxQuietTime, hadPosition, blanked >>

\* (variant: a sender is removed only when its age exceeds Q)
quietSendersRemoved_Strict(S, Q, clk) ==
    [id \in {i \in DOMAIN S : ~(Since(S[i].LastSeen, clk) > Q)} |-> S[id]]

\* (variant: the sweep also refreshes the senders it keeps)
quietSendersRemoved_Touch(S, Q, clk) ==
    [id \in {i \in DOMAIN S : ~(Since(S[i].LastSeen, clk) >= Q)} |->
        [S[id] EXCEPT !.LastSeen = clk]]

\* The senders that survive a sweep at clk.
quietSendersRemoved(S, Q, clk) ==
    [id \in {i \in DOMAIN S : ~(Since(S[i].LastSeen, clk) >= Q)} |-> S[id]]

\* (variant: the sweep runs on every call)
ageOutQuietSenders_NoLimit(S, la, Q, clk) ==
    [Senders |-> quietSendersRemoved(S, Q, clk), lastAgeOut |-> clk, ran |-> TRUE]

\* ageOutQuietSenders: the Senders map and lastAgeOut it leaves.
ageOutQuietSenders(S, la, Q, clk) ==
    IF Since(la, clk) < Second
    THEN [Senders |-> S, lastAgeOut |-> la, ran |-> FALSE]
    ELSE [Senders |-> quietSendersRemoved(S, Q, clk), lastAgeOut |-> clk, ran |-> TRUE]

\* (variant: the publish interval is not enforced)
shouldFlush_NoInterval(M, lf, clk) ==
    /\ Len(M) > 0
    /\ Since(M[1].Msg.GeneratedTimestampUTC, clk) >= MaxMessageAge

\* (variant: the test on the length of Messages is missing, so that Add
\* flushes an empty accumulator whenever the publish interval has passed)
shouldFlush_EmptyToo(M, lf, clk) ==
    /\ Len(M) > 0 => Since(M[1].Msg.GeneratedTimestampUTC, clk) >= MaxMessageAge
    /\ Since(lf, clk) >= MinPublishInterval

\* (variant: the age test looks at every pending composite)
shouldFlush_AnyPending(M, lf, clk) ==
    /\ Len(M) > 0
    /\ \E i \in 1..Len(M) : Since(M[i].Msg.GeneratedTimestampUTC, clk) >= MaxMessageAge
    /\ Since(lf, clk) >= MinPublishInterval

\* The condition under which Add calls flush, on the buffer M it holds then.
shouldFlush(M, lf, clk) ==
    /\ Len(M) > 0
    /\ Since(M[1].Msg.GeneratedTimestampUTC, clk) >= MaxMessageAge
    /\ Since(lf, clk) >= MinPublishInterval

\* (variant: a send never waits, whatever the channel holds)
canSend_Unbounded(ch) == TRUE

\* The send of flush can proceed without waiting.
canSend(ch) == ~ch.open \/ Len(ch.buf) < ch.cap

\* (variant: the accumulator is reset before the send, which then sends the
\* empty slice)
flush_ResetFirst(M) ==
    IF canSend(FlushChannel)
    THEN /\ FlushChannel' = IF FlushChannel.open
                            THEN [FlushChannel EXCEPT !.buf = Append(@, <<>>)]
                            ELSE FlushChannel
         /\ Messages' = <<>>
         /\ lastFlush' = now
         /\ pc' = "idle"
    ELSE /\ Messages' = <<>>
         /\ pc' = "send"
         /\ UNCHANGED << FlushChannel, lastFlush >>

\* flush, from the point of the send on, with M the buffer being flushed.
flush(M) ==
    IF canSend(FlushChannel)
    THEN /\ FlushChannel' = IF FlushChannel.open
                            THEN [FlushChannel EXCEPT !.buf = Append(@, M)]
                            ELSE FlushChannel
         /\ Messages' = <<>>
         /\ lastFlush' = now
         /\ pc' = "idle"
    ELSE /\ Messages' = M
         /\ pc' = "send"
         /\ UNCHANGED << FlushChannel, lastFlush >>

NoMsg == FromSBS1([Type |-> "", SubType |-> 0, Icao24 |-> "", Gen |-> ZeroTime,
                   Callsign |-> <<>>, Squawk |-> <<>>, GroundSpeed |-> <<>>,
                   Track |-> <<>>, VerticalRate |-> <<>>, Position |-> <<>>])
NoEvent == [op |-> "none", m |-> NoMsg, swept |-> FALSE, removed |-> {}, existed |-> FALSE,
            emitted |-> <<>>, flushed |-> FALSE, batch |-> <<>>, got |-> <<>>]

\* (variant: any message of an unknown sender admits it)
admitOrUpdate_AdmitAny(S, m, clk) ==
    IF m.Icao24 \notin DOMAIN S
    THEN [Senders |-> (m.Icao24 :> ADSBSender(clk)) @@ S,
          composite |-> <<>>, exists |-> FALSE]
    ELSE LET s == updateFromMsg(S[m.Icao24], m, clk)
         IN  [Senders |-> [S EXCEPT ![m.Icao24] = s],
              composite |-> maybeCreateComposite(s, m), exists |-> TRUE]

\* (variant: the admitting position message is emitted as well)
admitOrUpdate_EmitOnAdmit(S, m, clk) ==
    IF m.Icao24 \notin DOMAIN S
    THEN [Senders |-> IF HasPosition(m)
                      THEN (m.Icao24 :> ADSBSender(clk)) @@ S
                      ELSE S,
          composite |-> maybeCreateComposite(ADSBSender(clk), m), exists |-> FALSE]
    ELSE LET s == updateFromMsg(S[m.Icao24], m, clk)
         IN  [Senders |-> [S EXCEPT ![m.Icao24] = s],
              composite |-> maybeCreateComposite(s, m), exists |-> TRUE]

\* (variant: the composite is built from the cache as it was before the update)
admitOrUpdate_StaleComposite(S, m, clk) ==
    IF m.Icao24 \notin DOMAIN S
    THEN [Senders |-> IF HasPosition(m)
                      THEN (m.Icao24 :> ADSBSender(clk)) @@ S
                      ELSE S,
          composite |-> <<>>, exists |-> FALSE]
    ELSE LET s == updateFromMsg(S[m.Icao24], m, clk)
         IN  [Senders |-> [S EXCEPT ![m.Icao24] = s],
              composite |-> maybeCreateComposite(S[m.Icao24], m), exists |-> TRUE]

\* (variant: the admission caches the fields of the admitting message)
admitOrUpdate_CacheOnAdmit(S, m, clk) ==
    IF m.Icao24 \notin DOMAIN S
    THEN [Senders |-> IF HasPosition(m)
                      THEN (m.Icao24 :> updateFromMsg(ADSBSender(clk), m, clk)) @@ S
                      ELSE S,
          composite |-> <<>>, exists |-> FALSE]
    ELSE LET s == updateFromMsg(S[m.Icao24], m, clk)
         IN  [Senders |-> [S EXCEPT ![m.Icao24] = s],
              composite |-> maybeCreateComposite(s, m), exists |-> TRUE]

\* The whitelist branch of Add: on the map S left by the sweep, admit the
\* sender of a position message, drop a message of an unknown sender, or
\* update the known sender and build its composite.
admitOrUpdate(S, m, clk) ==
    IF m.Icao24 \notin DOMAIN S
    THEN [Senders |-> IF HasPosition(m)
                      THEN (m.Icao24 :> ADSBSender(clk)) @@ S
                      ELSE S,
          composite |-> <<>>, exists |-> FALSE]
    ELSE LET s == updateFromMsg(S[m.Icao24], m, clk)
         IN  [Senders |-> [S EXCEPT ![m.Icao24] = s],
              composite |-> maybeCreateComposite(s, m), exists |-> TRUE]

\* (variant: the sweep runs after the whitelist branch instead of before it)
Add_SweepLast(m) ==
    /\ pc = "idle"
    /\ Len(Messages) < MaxPending
    /\ LET au == admitOrUpdate(Senders, m, now)
           ao == ageOutQuietSenders(au.Senders, lastAgeOut, MaxQuietTime, now)
           M1 == Messages \o au.composite
           fl == shouldFlush(M1, lastFlush, now)
       IN  /\ Senders' = ao.Senders
           /\ lastAgeOut' = ao.lastAgeOut
           /\ ev' = [op |-> "Add", m |-> m, swept |-> ao.ran,
                     removed |-> DOMAIN au.Senders \ DOMAIN ao.Senders, existed |-> au.exists,
                     emitted |-> au.composite, flushed |-> fl,
                     batch |-> IF fl THEN M1 ELSE <<>>, got |-> <<>>]
           /\ IF fl THEN flush(M1)
              ELSE /\ Messages' = M1
                   /\ UNCHANGED << FlushChannel, lastFlush, pc >>
    /\ hadPosition' = IF HasPosition(m) THEN hadPosition \cup {m.Icao24} ELSE hadPosition
    /\ blanked' = LET upd(B) == IF ~ev'.existed THEN B
                                ELSE IF m.Callsign # "" THEN B \ {m.Icao24}
                                ELSE IF HasCallsign(m) THEN B \cup {m.Icao24}
                                ELSE B
                  IN  [since |-> upd(blanked.since),
                       live  |-> upd(blanked.live \ ev'.removed)]
    /\ UNCHANGED << now, MinPublishInterval, MaxMessageAge, MaxQuietTime, others >>

\* Add: the sweep, the whitelist branch, the append and the flush decision.
Add(m) ==
    /\ pc = "idle"
    /\ Len(Messages) < MaxPending
    /\ LET ao == ageOutQuietSenders(Senders, lastAgeOut, MaxQuietTime, now)
           au == admitOrUpdate(ao.Senders, m, now)
           M1 == Messages \o au.composite
           fl == shouldFlush(M1, lastFlush, now)
       IN  /\ Senders' = au.Senders
           /\ lastAgeOut' = ao.lastAgeOut
           /\ ev' = [op |-> "Add", m |-> m, swept |-> ao.ran,
                     removed |-> DOMAIN Senders \ DOMAIN ao.Senders, existed |-> au.exists,
                     emitted |-> au.composite, flushed |-> fl,
                     batch |-> IF fl THEN M1 ELSE <<>>, got |-> <<>>]
           /\ IF fl THEN flush(M1)
              ELSE /\ Messages' = M1
                   /\ UNCHANGED << FlushChannel, lastFlush, pc >>
    /\ hadPosition' = IF HasPosition(m) THEN hadPosition \cup {m.Icao24} ELSE hadPosition
    /\ blanked' = LET upd(B) == IF ~ev'.existed THEN B
                                ELSE IF m.Callsign # "" THEN B \ {m.Icao24}
                                ELSE IF HasCallsign(m) THEN B \cup {m.Icao24}
                                ELSE B
                  IN  [since |-> upd(blanked.since),
                       live  |-> upd(blanked.live \ ev'.removed)]
    /\ UNCHANGED << now, MinPublishInterval, MaxMessageAge, MaxQuietTime, others >>

\* (variant: FinalFlush honours the gates of Add)
FinalFlush_Gated ==
    /\ pc = "idle"
    /\ LET fl == shouldFlush(Messages, lastFlush, now)
       IN  /\ ev' = [NoEvent EXCEPT !.op = "FinalFlush", !.flushed = fl,
                                    !.batch = IF fl THEN Messages ELSE <<>>]
           /\ IF fl THEN flush(Messages)
              ELSE UNCHANGED << Messages, FlushChannel, lastFlush, pc >>
    /\ UNCHANGED << now, config, Senders, lastAgeOut, others >>

FinalFlush ==
    /\ pc = "idle"
    /\ ev' = [NoEvent EXCEPT !.op = "FinalFlush", !.flushed = TRUE, !.batch = Messages]
    /\ flush(Messages)
    /\ UNCHANGED << now, config, Senders, lastAgeOut, others >>

\* The blocked send of flush goes through once the buffered channel has room,
\* and the call runs to its end.
SendResume ==
    /\ pc = "send"
    /\ canSend(FlushChannel)
    /\ flush(Messages)
    /\ UNCHANGED << now, config, Senders, lastAgeOut, ev, others >>

\* (variant: the flush that a receive completes does not reset the accumulator)
Receive_KeepPending ==
    /\ FlushChannel.open
    /\ IF Len(FlushChannel.buf) > 0
       THEN /\ FlushChannel' = [FlushChannel EXCEPT !.buf = Tail(@)]
            /\ ev' = [(IF pc = "send" THEN ev ELSE NoEvent)
                         EXCEPT !.got = <<Head(FlushChannel.buf)>>]
            /\ UNCHANGED << Messages, lastFlush, pc >>
       ELSE /\ pc = "send"
            /\ ev' = [ev EXCEPT !.got = <<Messages>>]
            /\ lastFlush' = now
            /\ pc' = "idle"
            /\ UNCHANGED << Messages, FlushChannel >>
    /\ UNCHANGED << now, config, Senders, lastAgeOut, others >>

\* The consumer receives one batch: the head of the channel's queue, or, when
\* the queue is empty and the producer waits in the send (the only way a send
\* on an unbuffered channel completes), the batch being sent, which lets the
\* blocked call run to its end.
Receive ==
    /\ FlushChannel.open
    /\ IF Len(FlushChannel.buf) > 0
       THEN /\ FlushChannel' = [FlushChannel EXCEPT !.buf = Tail(@)]
            /\ ev' = [(IF pc = "send" THEN ev ELSE NoEvent)
                         EXCEPT !.got = <<Head(FlushChannel.buf)>>]
            /\ UNCHANGED << Messages, lastFlush, pc >>
       ELSE /\ pc = "send"
            /\ ev' = [ev EXCEPT !.got = <<Messages>>]
            /\ Messages' = <<>>
            /\ lastFlush' = now
            /\ pc' = "idle"
            /\ UNCHANGED FlushChannel
    /\ UNCHANGED << now, config, Senders, lastAgeOut, others >>

\* The clock advances by one tick, up to `limit` ticks after construction.
Tick(limit) ==
    /\ now < Epoch + limit
    /\ now' = now + 1
    /\ ev' = IF pc = "send" THEN ev ELSE NoEvent
    /\ UNCHANGED << config, Senders, Messages, FlushChannel, lastFlush, lastAgeOut, pc,
                    others >>

\* NewMsgBuffer, followed by the caller's setting of the public fields.
NewMsgBuffer(minPub, maxAge, maxQuiet, ch) ==
    /\ now = Epoch
    /\ MinPublishInterval = minPub
    /\ MaxMessageAge = maxAge
    /\ MaxQuietTime = maxQuiet
    /\ Senders = << >>
    /\ Messages = << >>
    /\ FlushChannel = ch
    /\ lastFlush = ZeroTime
    /\ lastAgeOut = ZeroTime
    /\ pc = "idle"
    /\ ev = NoEvent
    /\ hadPosition = {}
    /\ blanked = [since |-> {}, live |-> {}]

NilChannel == [open |-> FALSE, cap |-> 0, buf |-> <<>>]
MakeChan(c) == [open |-> TRUE, cap |-> c, buf |-> <<>>]

\* A run that constructs no track buffer, and one that transports no batch.
NoTrackEvent == [op |-> "none", suppressed |-> FALSE]
NoThreads ==
    /\ mutex = TRUE /\ pcAdd = "idle" /\ pcFlush = "idle" /\ addMsg = <<>>
    /\ addTrack = "nil" /\ toRemove = <<>> /\ removed = <<>> /\ strayed = <<>>
NoTrackBuffer ==
    /\ Tracks = << >> /\ MaxAge = 0 /\ trackLastFlush = ZeroTime /\ sent = <<>>
    /\ tev = NoTrackEvent
    /\ NoThreads
NoCodec == codec = [stage |-> "none", batch |-> <<>>, str |-> <<>>, msgs |-> <<>>]

\* ------------------------------------------------------- the environment
\* Generation timestamps a receiver may report at clock value clk: up to
\* MaxLate ticks old, or one tick ahead of the buffer's clock.
GenTimes(clk) == {clk - MaxLate, clk, clk + 1}

Cells(type, sub, id, gen, cs, sq, gs, tr, vr, pos) ==
    [Type |-> type, SubType |-> sub, Icao24 |-> id, Gen |-> gen, Callsign |-> cs,
     Squawk |-> sq, GroundSpeed |-> gs, Track |-> tr, VerticalRate |-> vr,
     Position |-> pos]

\* The lines of the timing runs: MSG,3 (position), MSG,7 (altitude only) and
\* MSG,1 (callsign) of the tests.
TimingMsgs(clk) ==
    { FromSBS1(Cells("MSG", 3, id, g, <<>>, <<>>, <<>>, <<>>, <<>>, <<1>>))
        : id \in Icaos, g \in GenTimes(clk) }
    \cup
    { FromSBS1(Cells("MSG", 7, id, clk, <<>>, <<>>, <<>>, <<>>, <<>>, <<>>))
        : id \in Icaos }

\* <<MinPublishInterval, MaxMessageAge, MaxQuietTime, FlushChannel>> as the
\* caller sets them: immediate dispatch (the setting of TestFlush) with and
\* without a channel, both gates in force with an unbuffered channel, and the
\* publish interval alone with the nil channel NewMsgBuffer leaves.
Setups ==
    { <<0, 0, Second, NilChannel>>,
      <<0, 0, Second, MakeChan(0)>>,
      <<Second, MaxDur, MaxDur, MakeChan(0)>>,
      <<Second, 0, Second, NilChannel>> }

Init == (\E c \in Setups : NewMsgBuffer(c[1], c[2], c[3], c[4])) /\ NoTrackBuffer /\ NoCodec

Next ==
    \/ \E m \in TimingMsgs(now) : Add(m)
    \/ FinalFlush
    \/ Receive
    \/ Tick(Horizon)

Spec == Init /\ [][Next]_vars

\* The runs for the staleness of buffered composites: a channel is set, time
\* passes and the consumer takes what is sent to it.  Nothing makes the
\* producer call Add again: the calls come from the input alone.
InitLive ==
    /\ \E c \in { x \in Setups : x[4].open } : NewMsgBuffer(c[1], c[2], c[3], c[4])
    /\ NoTrackBuffer /\ NoCodec

SpecLive ==
    InitLive /\ [][Next]_vars /\ WF_vars(Tick(Horizon)) /\ WF_vars(Receive)

\* The backpressure runs: immediate dispatch into a channel of capacity 0 to
\* MaxCap, with a consumer that receives when it pleases; the lines are those
\* of one aircraft, stamped with the current time.
MaxCap == 2

ChanMsgs(clk) ==
    { m \in TimingMsgs(clk) : m.Icao24 = "A81BD0" /\ m.GeneratedTimestampUTC = clk }

InitChan ==
    /\ \E c \in 0..MaxCap : NewMsgBuffer(0, 0, Second, MakeChan(c))
    /\ NoTrackBuffer /\ NoCodec

NextChan ==
    \/ \E m \in ChanMsgs(now) : Add(m)
    \/ FinalFlush
    \/ SendResume
    \/ Receive
    \/ Tick(Second)

SpecChan == InitChan /\ [][NextChan]_vars

\* The lines of the cache runs, all of one sender and stamped with the current
\* time: a line with no optional cell, with one optional cell (a string cell
\* may be blank, an integer cell may hold 0), or with all of them; each with
\* and without position.  The type MSG_foooo reaches the subtype branch of
\* updateFromMsg.
OneCell ==
    { <<cs, <<>>, <<>>, <<>>, <<>>>> : cs \in {<<"">>, <<"VRD961">>} } \cup
    { << <<>>, sq, <<>>, <<>>, <<>>>> : sq \in {<<"">>, <<"1200">>} } \cup
    { << <<>>, <<>>, gs, <<>>, <<>>>> : gs \in {<<0>>, <<304>>} } \cup
    { << <<>>, <<>>, <<>>, tr, <<>>>> : tr \in {<<0>>, <<328>>} } \cup
    { << <<>>, <<>>, <<>>, <<>>, vr>> : vr \in {<<0>>, <<-1856>>} }
NoCell == << <<>>, <<>>, <<>>, <<>>, <<>> >>
AllCells == << <<"N1KE">>, <<"7700">>, <<121>>, <<90>>, <<64>> >>
CacheMsgs(clk) ==
    { FromSBS1(Cells("MSG", 3, "A81BD0", clk, c[1], c[2], c[3], c[4], c[5], pos))
        : c \in OneCell \cup {NoCell, AllCells}, pos \in {<<>>, <<1>>} }
    \cup
    { FromSBS1(Cells("MSG_foooo", sub, "A81BD0", clk, c[1], c[2], c[3], c[4], c[5], <<>>))
        : sub \in {1, 6}, c \in {NoCell} }
    \cup
    { FromSBS1(Cells("MSG_foooo", sub, "A81BD0", clk, c[1], c[2], c[3], c[4], c[5], <<>>))
        : sub \in {2, 4, 8}, c \in {AllCells} }

\* The cache runs: immediate dispatch into a nil channel, so that the buffer
\* never holds a composite back, and the shortest quiet time; the clock runs
\* for one second, which is enough for the sender to age out and come back.
InitCache == NewMsgBuffer(0, 0, Second, NilChannel) /\ NoTrackBuffer /\ NoCodec

NextCache ==
    \/ \E m \in CacheMsgs(now) : Add(m)
    \/ Tick(Second)

SpecCache == InitCache /\ [][NextCache]_vars

\* ----------------------------------------------------------- trackbuffer
\* Most composites a Track is given before the producer stops adding to it.
MaxTrackLen == 2

\* time.Hour * 24: the age of a Track without messages.
Day == 24 * 60 * 60 * Second

\* Track.Age, of the Messages t of a Track, read at clk.
\* (variant: the age is measured from the composite appended last)
Age_Newest(t, clk) ==
    IF Len(t) = 0 THEN Day
    ELSE Since(t[Len(t)].Msg.GeneratedTimestampUTC, clk)

Age(t, clk) ==
    IF Len(t) = 0 THEN Day
    ELSE Since(t[1].Msg.GeneratedTimestampUTC, clk)

\* AddTrack: an empty Track under icao, in place of any that was there.
AddTrack(T, icao) == (icao :> <<>>) @@ T

\* The bijections on 1..n, and the enumerations of a set in some order (the
\* order of a range over a map is not specified).
Perms(n) == { f \in [1..n -> 1..n] : \A i, j \in 1..n : i # j => f[i] # f[j] }
Orderings(S) ==
    { f \in [1..Cardinality(S) -> S] :
        \A i, j \in 1..Cardinality(S) : i # j => f[i] # f[j] }

\* CompositeMsgPtrByTimeAsc.Less(i, j), on the elements themselves.
Less(a, b) == b.Msg.GeneratedTimestampUTC > a.Msg.GeneratedTimestampUTC
IsSorted(q) == \A i, j \in 1..Len(q) : i < j => ~Less(q[j], q[i])

\* (variant: the messages are sent in arrival order)
Sort_ArrivalOrder(q) == { q }

\* sort.Sort(CompositeMsgPtrByTimeAsc(q)): the sort is not stable, so every
\* ascending arrangement of q is a possible result.
Sort(q) ==
    { r \in { [i \in 1..Len(q) |-> q[f[i]]] : f \in Perms(Len(q)) } : IsSorted(r) }

\* (variant: the tracks are returned but not deleted from the map)
RemoveTracks_NoDelete(T, icaos) ==
    [ Tracks  |-> T,
      removed |-> [i \in 1..Len(icaos) |-> [Icao24 |-> icaos[i], Messages |-> T[icaos[i]]]] ]

\* RemoveTracks: the map without the tracks of icaos, and those tracks in the
\* order of icaos.
RemoveTracks(T, icaos) ==
    [ Tracks  |-> [id \in DOMAIN T \ { icaos[i] : i \in 1..Len(icaos) } |-> T[id]],
      removed |-> [i \in 1..Len(icaos) |-> [Icao24 |-> icaos[i], Messages |-> T[icaos[i]]]] ]

\* What the loop over the removed tracks sends: for each track, in order, one
\* result of sorting its Messages.
Batches(rem) ==
    LET U == UNION { Sort(rem[i].Messages) : i \in 1..Len(rem) }
    IN  { b \in [1..Len(rem) -> U] : \A i \in 1..Len(rem) : b[i] \in Sort(rem[i].Messages) }

\* (variant: the rate limiter of Flush is off)
rateLimited_Never(lf, clk) == FALSE

\* The rate limiter at the head of Flush.
rateLimited(lf, clk) == Since(lf, clk) < Second

\* (variant: a track is ready as soon as its age reaches MaxAge)
readyTracks_AtLeast(T, A, clk) == { id \in DOMAIN T : Age(T[id], clk) >= A }

\* The identifiers Flush puts into toRemove.
readyTracks(T, A, clk) == { id \in DOMAIN T : Age(T[id], clk) > A }

\* (variant: AddMessage calls AddTrack whether or not the track exists)
AddMessage_AlwaysAddTrack(m) ==
    /\ pcAdd = "idle" /\ pcFlush = "idle"
    /\ LET id == m.Msg.Icao24
           T1 == AddTrack(Tracks, id)
       IN  /\ Len(T1[id]) < MaxTrackLen
           /\ Tracks' = [T1 EXCEPT ![id] = Append(@, m)]
    /\ tev' = [op |-> "AddMessage", suppressed |-> FALSE]
    /\ sent' = <<>>
    /\ UNCHANGED << now, msgbuffer, MaxAge, trackLastFlush, racevars, codec >>

\* AddMessage(m), run to its end without another call in between.
AddMessage(m) ==
    /\ pcAdd = "idle" /\ pcFlush = "idle"
    /\ LET id == m.Msg.Icao24
           T1 == IF id \notin DOMAIN Tracks THEN AddTrack(Tracks, id) ELSE Tracks
       IN  /\ Len(T1[id]) < MaxTrackLen
           /\ Tracks' = [T1 EXCEPT ![id] = Append(@, m)]
    /\ tev' = [op |-> "AddMessage", suppressed |-> FALSE]
    /\ sent' = <<>>
    /\ UNCHANGED << now, msgbuffer, MaxAge, trackLastFlush, racevars, codec >>

\* Flush(flushChan), with a consumer that takes each batch as it is sent.
Flush ==
    /\ pcAdd = "idle" /\ pcFlush = "idle"
    /\ IF rateLimited(trackLastFlush, now)
       THEN /\ tev' = [op |-> "Flush", suppressed |-> TRUE]
            /\ sent' = <<>>
            /\ UNCHANGED << Tracks, trackLastFlush >>
       ELSE /\ tev' = [op |-> "Flush", suppressed |-> FALSE]
            /\ trackLastFlush' = now
            /\ \E ids \in Orderings(readyTracks(Tracks, MaxAge, now)) :
                  LET rt == RemoveTracks(Tracks, ids)
                  IN  /\ Tracks' = rt.Tracks
                      /\ sent' \in Batches(rt.removed)
    /\ UNCHANGED << now, msgbuffer, MaxAge, racevars, codec >>

\* (variant: lastFlush is left at the zero time)
NewTrackBuffer_ZeroLastFlush(maxAge) ==
    /\ Tracks = << >>
    /\ MaxAge = maxAge
    /\ trackLastFlush = ZeroTime
    /\ sent = <<>>
    /\ tev = NoTrackEvent

\* NewTrackBuffer, followed by the caller's setting of MaxAge.
NewTrackBuffer(maxAge) ==
    /\ Tracks = << >>
    /\ MaxAge = maxAge
    /\ trackLastFlush = now
    /\ sent = <<>>
    /\ tev = NoTrackEvent

\* The composites handed to the track buffer at clock value clk: of either
\* aircraft, generated now or MaxLate ticks ago (late or out-of-order delivery).
TrackMsgs(clk) ==
    { CompositeMsg(FromSBS1(Cells("MSG", 3, id, g, <<>>, <<>>, <<>>, <<>>, <<>>, <<1>>)))
        : id \in Icaos, g \in {clk - MaxLate, clk} }

\* The values of MaxAge the caller sets.
MaxAges == {1}

InitTrack ==
    /\ NewMsgBuffer(0, 0, Second, NilChannel)
    /\ \E a \in MaxAges : NewTrackBuffer(a)
    /\ NoThreads
    /\ NoCodec

NextTrack ==
    \/ \E m \in TrackMsgs(now) : AddMessage(m)
    \/ Flush
    \/ Tick(Horizon)

SpecTrack == InitTrack /\ [][NextTrack]_vars

\* The same buffer, fed with the composites of one aircraft, with a caller
\* that keeps invoking Flush while time passes; each batch is taken by the
\* consumer as it is sent.
LiveMsgs(clk) == { m \in TrackMsgs(clk) : m.Msg.Icao24 = "A81BD0" }

NextTrackLive ==
    \/ \E m \in LiveMsgs(now) : AddMessage(m)
    \/ Flush
    \/ Tick(Horizon)

SpecTrackLive ==
    InitTrack /\ [][NextTrackLive]_vars /\ WF_vars(Tick(Horizon)) /\ WF_vars(Flush)

\* ------------------------------------- trackbuffer, two threads of control
\* AddMessage runs in the producer and Flush in a periodic caller, statement
\* by statement.  The package has no lock: with mutex the callers serialize
\* the calls (a call starts only when no other is in progress), without it the
\* statements interleave.  Unsynchronized access to the map and to a Track is
\* a data race: the Track a pointer refers to may have left the map, a read of
\* its Messages may miss an append made meanwhile, and the runtime may stop the
\* program when a map read meets a map write.
mayRun(mine, other) == ~mutex \/ mine # "idle" \/ other = "idle"
crashed == pcAdd \in {"panic", "fatal"}

\* (variant: the track of an unknown aircraft is not created)
AddMessageCheck_NoAddTrack(m) ==
    /\ ~crashed /\ pcAdd = "idle" /\ mayRun(pcAdd, pcFlush)
    /\ m.Msg.Icao24 \in DOMAIN Tracks => Len(Tracks[m.Msg.Icao24]) < MaxTrackLen
    /\ addMsg' = << m >>
    /\ pcAdd' = "lookup"
    /\ UNCHANGED << now, msgbuffer, trackvars, mutex, pcFlush, addTrack, toRemove, removed,
                    strayed, codec >>

\* if _,exists := tb.Tracks[m.Icao24]; exists == false { tb.AddTrack(m.Icao24) }
AddMessageCheck(m) ==
    /\ ~crashed /\ pcAdd = "idle" /\ mayRun(pcAdd, pcFlush)
    /\ m.Msg.Icao24 \in DOMAIN Tracks => Len(Tracks[m.Msg.Icao24]) < MaxTrackLen
    /\ Tracks' = IF m.Msg.Icao24 \notin DOMAIN Tracks
                 THEN AddTrack(Tracks, m.Msg.Icao24)
                 ELSE Tracks
    /\ addMsg' = << m >>
    /\ pcAdd' = "lookup"
    /\ UNCHANGED << now, msgbuffer, MaxAge, trackLastFlush, sent, tev, mutex, pcFlush,
                    addTrack, toRemove, removed, strayed, codec >>

\* track := tb.Tracks[m.Icao24]: nil when the map has no such key.
AddMessageLookup ==
    /\ ~crashed /\ pcAdd = "lookup"
    /\ addTrack' = IF addMsg[1].Msg.Icao24 \in DOMAIN Tracks THEN "ptr" ELSE "nil"
    /\ pcAdd' = "append"
    /\ UNCHANGED << now, msgbuffer, trackvars, mutex, pcFlush, addMsg, toRemove, removed,
                    strayed, codec >>

\* track.Messages = append(track.Messages, m): a nil track panics; otherwise
\* the Track is the one in the map, or one that RemoveTracks has returned and
\* Flush has not sent yet, or one that was sent, which nothing refers to.
AddMessageAppend ==
    /\ ~crashed /\ pcAdd = "append"
    /\ LET m  == addMsg[1]
           id == m.Msg.Icao24
       IN  IF addTrack = "nil"
           THEN /\ pcAdd' = "panic"
                /\ UNCHANGED << Tracks, removed, strayed, addMsg, addTrack, tev >>
           ELSE /\ pcAdd' = "idle"
                /\ addMsg' = << >>
                /\ addTrack' = "nil"
                /\ tev' = [op |-> "AddMessage", suppressed |-> FALSE]
                /\ IF id \in DOMAIN Tracks
                   THEN /\ Tracks' = [Tracks EXCEPT ![id] = Append(@, m)]
                        /\ UNCHANGED << removed, strayed >>
                   ELSE IF \E i \in 1..Len(removed) : removed[i].Icao24 = id
                   THEN /\ removed' = [i \in 1..Len(removed) |->
                                         IF removed[i].Icao24 = id
                                         THEN [removed[i] EXCEPT !.Messages = Append(@, m)]
                                         ELSE removed[i]]
                        /\ UNCHANGED << Tracks, strayed >>
                   ELSE /\ strayed' = Append(strayed, m)
                        /\ UNCHANGED << Tracks, removed >>
    /\ UNCHANGED << now, msgbuffer, MaxAge, trackLastFlush, sent, mutex, pcFlush, toRemove,
                    codec >>

\* The rate limiter of Flush.
FlushLimit ==
    /\ ~crashed /\ pcFlush = "idle" /\ mayRun(pcFlush, pcAdd)
    /\ sent' = <<>>
    /\ IF rateLimited(trackLastFlush, now)
       THEN /\ tev' = [op |-> "Flush", suppressed |-> TRUE]
            /\ UNCHANGED << trackLastFlush, pcFlush >>
       ELSE /\ trackLastFlush' = now
            /\ pcFlush' = "scan"
            /\ UNCHANGED tev
    /\ UNCHANGED << now, msgbuffer, Tracks, MaxAge, mutex, pcAdd, addMsg, addTrack, toRemove,
                    removed, strayed, codec >>

\* The loop that fills toRemove.
FlushScan ==
    /\ ~crashed /\ pcFlush = "scan"
    /\ toRemove' \in Orderings(readyTracks(Tracks, MaxAge, now))
    /\ pcFlush' = "remove"
    /\ UNCHANGED << now, msgbuffer, trackvars, mutex, pcAdd, addMsg, addTrack, removed,
                    strayed, codec >>

\* tb.RemoveTracks(toRemove); seen is the length of Messages the thread of
\* Flush has seen.
FlushRemove ==
    /\ ~crashed /\ pcFlush = "remove"
    /\ LET rt == RemoveTracks(Tracks, toRemove)
       IN  /\ Tracks' = rt.Tracks
           /\ removed' = [i \in 1..Len(rt.removed) |->
                             [Icao24   |-> rt.removed[i].Icao24,
                              Messages |-> rt.removed[i].Messages,
                              seen     |-> Len(rt.removed[i].Messages)]]
    /\ toRemove' = <<>>
    /\ pcFlush' = "send"
    /\ UNCHANGED << now, msgbuffer, MaxAge, trackLastFlush, sent, tev, mutex, pcAdd, addMsg,
                    addTrack, strayed, codec >>

\* One round of the loop over the removed tracks: sort t.Messages and send
\* it.  The slice read is the one seen at removal or the current one; what an
\* append added to it behind the reader's back goes nowhere.
FlushSend ==
    /\ ~crashed /\ pcFlush = "send"
    /\ IF removed = <<>>
       THEN /\ pcFlush' = "idle"
            /\ tev' = [op |-> "Flush", suppressed |-> FALSE]
            /\ UNCHANGED << sent, removed, strayed >>
       ELSE /\ \E n \in {Head(removed).seen, Len(Head(removed).Messages)} :
                  /\ \E b \in Sort(SubSeq(Head(removed).Messages, 1, n)) :
                        sent' = Append(sent, b)
                  /\ strayed' = strayed \o SubSeq(Head(removed).Messages, n + 1,
                                                  Len(Head(removed).Messages))
            /\ removed' = Tail(removed)
            /\ UNCHANGED << pcFlush, tev >>
    /\ UNCHANGED << now, msgbuffer, Tracks, MaxAge, trackLastFlush, mutex, pcAdd, addMsg,
                    addTrack, toRemove, codec >>

\* The runtime detects the map read of AddMessage concurrent with the delete
\* of RemoveTracks and stops the program.
MapFault ==
    /\ ~crashed /\ ~mutex
    /\ pcAdd = "lookup" /\ pcFlush = "remove"
    /\ pcAdd' = "fatal"
    /\ UNCHANGED << now, msgbuffer, trackvars, mutex, pcFlush, addMsg, addTrack, toRemove,
                    removed, strayed, codec >>

\* The producer's composites in these runs: late ones, which are ready at once.
RaceMsgs(clk) == { m \in TrackMsgs(clk) : m.Msg.GeneratedTimestampUTC < clk }

InitRace ==
    /\ NewMsgBuffer(0, 0, Second, NilChannel)
    /\ \E a \in MaxAges : NewTrackBuffer(a)
    /\ mutex \in BOOLEAN
    /\ pcAdd = "idle" /\ pcFlush = "idle" /\ addMsg = <<>> /\ addTrack = "nil"
    /\ toRemove = <<>> /\ removed = <<>> /\ strayed = <<>>
    /\ NoCodec

NextRace ==
    \/ \E m \in RaceMsgs(now) : AddMessageCheck(m)
    \/ AddMessageLookup
    \/ AddMessageAppend
    \/ FlushLimit
    \/ FlushScan
    \/ FlushRemove
    \/ FlushSend
    \/ MapFault
    \/ Tick(Second)

SpecRace == InitRace /\ [][NextRace]_vars

\* ------------------------------------------------- transport of a batch
\* Most composites in a batch that is encoded.
MaxBatch == 2

\* The exported fields of adsb.Msg in the order of declaration; the presence
\* flags are unexported.  encoding/gob transmits exported fields only.
MsgFields ==
    << "Type", "SubType", "Icao24", "GeneratedTimestampUTC", "Callsign", "GroundSpeed",
       "Track", "Position", "VerticalRate", "Squawk" >>

\* gob's encoding of a struct: for each exported field that is not at its zero
\* value, from field k on, the field number and the value; then the
\* terminator 0.
RECURSIVE gobMsgFields(_, _)
gobMsgFields(m, k) ==
    IF k > Len(MsgFields) THEN << 0 >>
    ELSE (IF m[MsgFields[k]] # NoMsg[MsgFields[k]] THEN << k, m[MsgFields[k]] >> ELSE << >>)
            \o gobMsgFields(m, k + 1)

\* A CompositeMsg: field 1 is the embedded Msg, field 2 is ReceiverName.
gobComposite(cm) ==
    << 1 >> \o gobMsgFields(cm.Msg, 1)
        \o (IF cm.ReceiverName # "" THEN << 2, cm.ReceiverName >> ELSE << >>)
        \o << 0 >>

\* gob.NewEncoder(&buf).Encode(msgs): the length of the slice, then its elements.
RECURSIVE gobElements(_)
gobElements(msgs) ==
    IF msgs = << >> THEN << >> ELSE gobComposite(Head(msgs)) \o gobElements(Tail(msgs))
gobEncode(msgs) == << Len(msgs) >> \o gobElements(msgs)

\* Decoding fills a zero value: what the stream does not carry stays zero.
\* Each parser returns the value read and the rest of the stream.
RECURSIVE gobReadMsg(_, _)
gobReadMsg(bytes, m) ==
    IF bytes[1] = 0 THEN [val |-> m, rest |-> Tail(bytes)]
    ELSE gobReadMsg(SubSeq(bytes, 3, Len(bytes)), [m EXCEPT ![MsgFields[bytes[1]]] = bytes[2]])

RECURSIVE gobReadComposite(_, _)
gobReadComposite(bytes, cm) ==
    IF bytes[1] = 0 THEN [val |-> cm, rest |-> Tail(bytes)]
    ELSE IF bytes[1] = 1
         THEN LET r == gobReadMsg(Tail(bytes), cm.Msg)
              IN  gobReadComposite(r.rest, [cm EXCEPT !.Msg = r.val])
         ELSE gobReadComposite(SubSeq(bytes, 3, Len(bytes)),
                               [cm EXCEPT !.ReceiverName = bytes[2]])

RECURSIVE gobReadElements(_, _)
gobReadElements(bytes, n) ==
    IF n = 0 THEN << >>
    ELSE LET r == gobReadComposite(bytes, CompositeMsg(NoMsg))
         IN  << r.val >> \o gobReadElements(r.rest, n - 1)
gobDecode(bytes) == gobReadElements(Tail(bytes), bytes[1])

\* base64.StdEncoding: a string that carries the bytes, and back.
EncodeToString(bytes) == << "base64" >> \o bytes
DecodeString(str) == Tail(str)

Base64EncodeMessages(msgs) == EncodeToString(gobEncode(msgs))
Base64DecodeMessages(str) == gobDecode(DecodeString(str))

Encode ==
    /\ codec.stage = "batch"
    /\ codec' = [codec EXCEPT !.stage = "encoded", !.str = Base64EncodeMessages(codec.batch)]
    /\ UNCHANGED << now, msgbuffer, trackvars, racevars >>

Decode ==
    /\ codec.stage = "encoded"
    /\ codec' = [codec EXCEPT !.stage = "decoded", !.msgs = Base64DecodeMessages(codec.str)]
    /\ UNCHANGED << now, msgbuffer, trackvars, racevars >>

\* The composites of the batches: of the lines of the cache runs, those that
\* carry a position (the ones the buffers emit) and the line without any
\* optional cell; without and with a receiver name.
CodecMsgs ==
    { [CompositeMsg(m) EXCEPT !.ReceiverName = r] :
        m \in { x \in CacheMsgs(Epoch) : x.Type = "MSG" /\ (HasPosition(x) \/ ~HasCallsign(x)) },
        r \in {"", "KSJC"} }

Batches0(n) == UNION { [1..k -> CodecMsgs] : k \in 0..n }

InitCodec ==
    /\ NewMsgBuffer(0, 0, Second, NilChannel)
    /\ NoTrackBuffer
    /\ \E b \in Batches0(MaxBatch) :
          codec = [stage |-> "batch", batch |-> b, str |-> <<>>, msgs |-> <<>>]

NextCodec == Encode \/ Decode

SpecCodec == InitCodec /\ [][NextCodec]_vars

\* ------------------------------------------------------------ properties
\* A step of the run is a call of Add (the event then tells which message).
AddStep == pc = "idle" /\ ev'.op = "Add"
\* The sender of the message of the last Add.
EvId == ev.m.Icao24

\* C1: whitelist.  An identifier is a key of Senders only if some earlier Add
\* for it carried a position; and an Add of a message without position, for an
\* identifier that has no SenderState, creates none and appends no composite.
C1_Whitelist ==
    /\ DOMAIN Senders \subseteq hadPosition
    /\ (ev.op = "Add" /\ ~HasPosition(ev.m) /\ ~ev.existed)
          => /\ EvId \notin DOMAIN Senders
             /\ ev.emitted = <<>>
\* A position-less message of an unknown sender was dropped while another
\* sender is tracked.
C1_Witness ==
    /\ ev.op = "Add" /\ ~HasPosition(ev.m) /\ ~ev.existed
    /\ Senders # << >>

\* C2: admission yields no output.  An Add of a position message for an
\* identifier without SenderState (after the sweep of that call) creates the
\* SenderState and appends no composite.
C2_AdmissionNoOutput ==
    (ev.op = "Add" /\ HasPosition(ev.m) /\ ~ev.existed)
        => /\ EvId \in DOMAIN Senders
           /\ ev.emitted = <<>>
\* An admission happened, in a call whose sweep had just removed that sender.
C2_Witness ==
    /\ ev.op = "Add" /\ HasPosition(ev.m) /\ ~ev.existed
    /\ EvId \in DOMAIN Senders
    /\ EvId \in ev.removed

C4_FullBackfillGate ==
    /\ (ev.op = "Add" /\ ev.existed /\ HasPosition(ev.m)
            /\ Senders[EvId].LastCallsign = "")
          => ev.emitted = <<>>
    /\ \A i \in 1..Len(Messages) : Messages[i].Msg.Callsign # ""

\* C5 as stated: a message of an admitted sender that carries a blank callsign
\* sets the cached callsign to "_._._._.", which is not ""; every later
\* position message without a callsign of its own yields a composite with that
\* callsign, until a message with a non-empty callsign overwrites the cache.
C5_BlankSentinel ==
    /\ BlankCallsign # ""
    /\ (ev.op = "Add" /\ ev.existed /\ HasCallsign(ev.m) /\ ev.m.Callsign = "")
          => Senders[EvId].LastCallsign = BlankCallsign
    /\ (ev.op = "Add" /\ HasPosition(ev.m) /\ ev.m.Callsign = ""
            /\ EvId \in blanked.since)
          => (Len(ev.emitted) = 1 /\ ev.emitted[1].Msg.Callsign = BlankCallsign)

\* C5 as amended: the same, until a message with a non-empty callsign
\* overwrites the cache or an ageout sweep deletes the SenderState.
C5_BlankSentinelWhileTracked ==
    /\ BlankCallsign # ""
    /\ (ev.op = "Add" /\ ev.existed /\ HasCallsign(ev.m) /\ ev.m.Callsign = "")
          => Senders[EvId].LastCallsign = BlankCallsign
    /\ (ev.op = "Add" /\ HasPosition(ev.m) /\ ev.m.Callsign = ""
            /\ EvId \in blanked.live)
          => (Len(ev.emitted) = 1 /\ ev.emitted[1].Msg.Callsign = BlankCallsign)
    /\ \A id \in blanked.live :
          id \in DOMAIN Senders /\ Senders[id].LastCallsign = BlankCallsign
\* A position message without callsign cell was emitted with the blank-callsign
\* value that an earlier message had put into the cache.
C5_Witness ==
    /\ ev.op = "Add" /\ HasPosition(ev.m) /\ ~HasCallsign(ev.m)
    /\ EvId \in blanked.live
    /\ Len(ev.emitted) = 1 /\ ev.emitted[1].Msg.Callsign = BlankCallsign

\* C6: ageout threshold.  A sweep runs in an Add exactly when at least one
\* second has passed since the last sweep that ran, and a sweep that runs
\* removes a SenderState if and only if the time since its LastSeen is at
\* least MaxQuietTime (a removed sender may be admitted anew by the same call).
C6_AgeoutThreshold ==
    [][ AddStep =>
          /\ ev'.swept <=> (Since(lastAgeOut, now) >= Second)
          /\ ev'.swept =>
                \A id \in DOMAIN Senders :
                    LET gone == \/ id \notin DOMAIN Senders'
                                \/ (ev'.m.Icao24 = id /\ ~ev'.existed)
                    IN  /\ gone <=> (Since(Senders[id].LastSeen, now) >= MaxQuietTime)
                        /\ gone <=> id \in ev'.removed ]_vars
\* One sweep removed a sender of age >= MaxQuietTime and spared one whose age
\* is one tick below it.
C6_Witness ==
    /\ ev.op = "Add" /\ ev.swept /\ pc = "idle"
    /\ ev.removed # {}
    /\ \E id \in DOMAIN Senders :
          id # EvId /\ Since(Senders[id].LastSeen, now) = MaxQuietTime - 1

\* C7: sweep rate limit.  A sweep invoked less than one second after the last
\* one that ran deletes no SenderState, however quiet, and does not move
\* lastAgeOut; a sweep that moves lastAgeOut comes at least a second later.
C7_SweepRateLimit ==
    [][ AddStep =>
          /\ (Since(lastAgeOut, now) < Second) =>
                /\ ~ev'.swept
                /\ lastAgeOut' = lastAgeOut
                /\ DOMAIN Senders \subseteq DOMAIN Senders'
                /\ ev'.existed <=> (ev'.m.Icao24 \in DOMAIN Senders)
                /\ \A id \in DOMAIN Senders :
                      id # ev'.m.Icao24 => Senders'[id] = Senders[id]
          /\ (lastAgeOut' # lastAgeOut) =>
                (Since(lastAgeOut, now) >= Second /\ lastAgeOut' = now) ]_vars
\* An Add within a second of the last sweep left a sender in place whose age
\* had reached MaxQuietTime.
C7_Witness ==
    /\ ev.op = "Add" /\ ~ev.swept /\ pc = "idle"
    /\ \E id \in DOMAIN Senders :
          id # EvId /\ Since(Senders[id].LastSeen, now) >= MaxQuietTime

\* C8: immediate dispatch.  With MaxMessageAge = 0, MinPublishInterval = 0 and
\* a channel, every Add that emits a composite sends it in the same call as a
\* batch of that one element, and Messages is empty after every Add.
C8_ImmediateDispatch ==
    (MaxMessageAge = 0 /\ MinPublishInterval = 0 /\ FlushChannel.open /\ ev.op = "Add")
        => /\ ev.emitted # <<>> => (ev.flushed /\ ev.batch = ev.emitted)
           /\ pc = "idle" => Messages = <<>>

\* C9: flush gate.  An Add flushes if and only if, after its synthesis step,
\* Messages is non-empty, the age of Messages[0] is at least MaxMessageAge and
\* the time since lastFlush is at least MinPublishInterval; a call that does
\* not flush leaves lastFlush and the channel alone.
C9_FlushGate ==
    [][ AddStep =>
          LET M1 == Messages \o ev'.emitted
          IN  /\ ev'.flushed <=>
                    /\ Len(M1) > 0
                    /\ Since(M1[1].Msg.GeneratedTimestampUTC, now) >= MaxMessageAge
                    /\ Since(lastFlush, now) >= MinPublishInterval
              /\ ev'.flushed =>
                    /\ Since(lastFlush, now) >= MinPublishInterval
                    /\ ev'.batch = M1
                    /\ IF FlushChannel.open /\ Len(FlushChannel.buf) >= FlushChannel.cap
                       THEN pc' = "send" /\ Messages' = M1 /\ lastFlush' = lastFlush
                       ELSE pc' = "idle" /\ Messages' = <<>> /\ lastFlush' = now
              /\ ~ev'.flushed =>
                    /\ Messages' = M1
                    /\ lastFlush' = lastFlush
                    /\ FlushChannel' = FlushChannel
                    /\ pc' = "idle" ]_vars
\* An Add held back a buffer whose head had reached MaxMessageAge, because the
\* last flush was less than MinPublishInterval ago.
C9_Witness ==
    /\ ev.op = "Add" /\ ~ev.flushed /\ pc = "idle"
    /\ Messages # <<>>
    /\ Since(Messages[1].Msg.GeneratedTimestampUTC, now) >= MaxMessageAge
    /\ Since(lastFlush, now) < MinPublishInterval

\* The consumer has the batch b: it received it in this step, or b is the
\* batch queued last in the channel.
Delivered(b) ==
    \/ ev.got = <<b>>
    \/ /\ FlushChannel.open /\ FlushChannel.buf # <<>>
       /\ FlushChannel.buf[Len(FlushChannel.buf)] = b
FlushDone == ev.op \in {"Add", "FinalFlush"} /\ ev.flushed /\ pc = "idle"

\* C10 as stated: every flush delivers to the consumer one batch holding the
\* composites that were in Messages.
C10_FlushDelivers ==
    (FlushDone /\ ev.batch # <<>>) => Delivered(ev.batch)

\* C10 as amended: a flush is handed exactly the pending composites in append
\* order; they stay in Messages while the send waits; when the flush is over
\* Messages is empty and lastFlush is the current time; with a channel the
\* consumer got that very batch, and with a nil FlushChannel nothing is
\* delivered.
C10_FlushAction ==
    /\ [](/\ pc = "send" => (ev.flushed /\ Messages = ev.batch /\ FlushChannel.open)
          /\ FlushDone =>
                /\ Messages = <<>>
                /\ lastFlush = now
                /\ IF FlushChannel.open THEN Delivered(ev.batch) ELSE ev.got = <<>>)
    /\ [][ (pc = "idle" /\ ev'.op \in {"Add", "FinalFlush"} /\ ev'.flushed)
             => ev'.batch = Messages \o ev'.emitted ]_vars
\* The consumer received a batch of two composites of different senders.
C10_Witness ==
    /\ FlushDone /\ FlushChannel.open
    /\ Len(ev.batch) = 2 /\ ev.got = <<ev.batch>>
    /\ ev.batch[1].Msg.Icao24 # ev.batch[2].Msg.Icao24

\* C11: FinalFlush is unconditional.  Whatever the age of the oldest pending
\* composite and the time since lastFlush, a FinalFlush calls flush with the
\* whole pending list: Messages is empty and lastFlush is the current time when
\* the send goes through at once (the channel then holds that list), the list
\* waits in Messages while the send is blocked, and once the call is over
\* Messages is empty and a consumer of the channel has got that list.
C11_FinalFlushUnconditional ==
    /\ [](ev.op = "FinalFlush" =>
            /\ ev.flushed
            /\ pc = "send" => Messages = ev.batch
            /\ pc = "idle" =>
                  /\ Messages = <<>>
                  /\ lastFlush = now
                  /\ FlushChannel.open => Delivered(ev.batch))
    /\ [][ (pc = "idle" /\ ev'.op = "FinalFlush") =>
             /\ ev'.flushed
             /\ ev'.batch = Messages
             /\ IF canSend(FlushChannel)
                THEN /\ Messages' = <<>> /\ lastFlush' = now /\ pc' = "idle"
                     /\ FlushChannel.open =>
                           FlushChannel'.buf = Append(FlushChannel.buf, Messages)
                ELSE pc' = "send" /\ Messages' = Messages ]_vars
\* A FinalFlush is handing off a composite that is younger than MaxMessageAge,
\* less than MinPublishInterval after the last flush.
C11_Witness ==
    /\ ev.op = "FinalFlush" /\ pc = "send"
    /\ Messages # <<>>
    /\ Since(Messages[1].Msg.GeneratedTimestampUTC, now) < MaxMessageAge
    /\ Since(lastFlush, now) < MinPublishInterval

\* A step of the run is a call of Flush.
FlushStep == tev'.op = "Flush" /\ now' = now
\* The batch b holds the composites of t, each as often as t does.
SameMessages(b, t) ==
    /\ Len(b) = Len(t)
    /\ \E f \in Perms(Len(t)) : \A i \in 1..Len(t) : b[i] = t[f[i]]

\* C12: track buffer batches.  Every batch a Flush sends holds composites of
\* one identifier only and is ascending by GeneratedTimestampUTC; a Flush that
\* scans sends one batch per ready track (so two for two ready aircraft,
\* whose composites arrived interleaved), and the batch of a track holds
\* exactly the composites of that track, whatever their arrival order.
C12_TrackBatches ==
    /\ [](\A k \in 1..Len(sent) :
             /\ \A i \in 1..Len(sent[k]) : sent[k][i].Msg.Icao24 = sent[k][1].Msg.Icao24
             /\ IsSorted(sent[k]))
    /\ [][ (FlushStep /\ ~tev'.suppressed) =>
             LET ready == readyTracks(Tracks, MaxAge, now)
             IN  /\ Len(sent') = Cardinality(ready)
                 /\ \A id \in ready :
                       \E k \in 1..Len(sent') : SameMessages(sent'[k], Tracks[id]) ]_vars
\* One Flush sent two batches, of different aircraft, each of two composites
\* with different timestamps.
C12_Witness ==
    /\ tev.op = "Flush" /\ ~tev.suppressed
    /\ Len(sent) = 2
    /\ sent[1][1].Msg.Icao24 # sent[2][1].Msg.Icao24
    /\ \A k \in 1..2 :
          /\ Len(sent[k]) = 2
          /\ Less(sent[k][1], sent[k][2])

\* C13: track buffer rate limit.  A Flush called less than a second after
\* lastFlush is suppressed: it removes no track, sends nothing and leaves
\* lastFlush as it is; any other Flush sets lastFlush to the current time, so
\* lastFlush only moves by a second or more.
C13_TrackRateLimit ==
    [][ /\ (FlushStep /\ Since(trackLastFlush, now) < Second) =>
              /\ tev'.suppressed
              /\ Tracks' = Tracks
              /\ sent' = <<>>
              /\ trackLastFlush' = trackLastFlush
        /\ (FlushStep /\ Since(trackLastFlush, now) >= Second) =>
              /\ ~tev'.suppressed
              /\ trackLastFlush' = now
        /\ (trackLastFlush' # trackLastFlush) =>
              (FlushStep /\ Since(trackLastFlush, now) >= Second) ]_vars
\* A Flush was suppressed although a track was ready.
C13_Witness ==
    /\ tev.op = "Flush" /\ tev.suppressed
    /\ Since(trackLastFlush, now) < Second
    /\ readyTracks(Tracks, MaxAge, now) # {}

\* C14: track readiness.  A Flush that scans removes and sends exactly the
\* tracks whose first-appended composite was generated more than MaxAge ago;
\* every other track stays, with the same composites in the same order.
C14_TrackReadiness ==
    [][ (FlushStep /\ ~tev'.suppressed) =>
          /\ DOMAIN Tracks' \subseteq DOMAIN Tracks
          /\ \A id \in DOMAIN Tracks :
                LET old == Since(Tracks[id][1].Msg.GeneratedTimestampUTC, now) > MaxAge
                IN  /\ (id \notin DOMAIN Tracks') <=> old
                    /\ old <=> \E k \in 1..Len(sent') : sent'[k][1].Msg.Icao24 = id
                    /\ ~old => Tracks'[id] = Tracks[id]
          /\ \A k \in 1..Len(sent') : sent'[k] # <<>> ]_vars
\* A Flush sent one track and left another whose first composite is exactly
\* MaxAge old and whose second composite is older than that.
C14_Witness ==
    /\ tev.op = "Flush" /\ ~tev.suppressed /\ trackLastFlush = now
    /\ Len(sent) = 1
    /\ \E id \in DOMAIN Tracks :
          /\ Len(Tracks[id]) = 2
          /\ Since(Tracks[id][1].Msg.GeneratedTimestampUTC, now) = MaxAge
          /\ Since(Tracks[id][2].Msg.GeneratedTimestampUTC, now) > MaxAge

\* The buffer holds composites that the gates of Add would let go.
Due ==
    /\ pc = "idle" /\ FlushChannel.open
    /\ Messages # <<>>
    /\ Since(Messages[1].Msg.GeneratedTimestampUTC, now) >= MaxMessageAge
    /\ Since(lastFlush, now) >= MinPublishInterval

\* C15: staleness bound.  Once the oldest buffered composite has reached
\* MaxMessageAge and MinPublishInterval has passed since the last flush, the
\* buffered composites are eventually sent down the channel, so that Messages
\* is empty again.
C15_StalenessBound == Due ~> (Messages = <<>>)

\* C16: batch round trip.  Decoding the encoding of a batch yields a batch of
\* the same length whose elements equal the originals, in every field of the
\* message including its position-presence state, and in order.
C16_RoundTrip ==
    codec.stage = "decoded" => codec.msgs = codec.batch

\* C17: position is the emission gate.  Every composite in Messages and in a
\* batch handed to flush or received by the consumer has its position; an Add
\* that appends a composite was given a message with position, which the
\* composite carries; an Add of a message without position appends none,
\* whatever the cache of its sender holds.
C17_PositionGate ==
    /\ \A i \in 1..Len(Messages) : HasPosition(Messages[i].Msg)
    /\ \A i \in 1..Len(ev.batch) : HasPosition(ev.batch[i].Msg)
    /\ \A k \in 1..Len(ev.got) : \A i \in 1..Len(ev.got[k]) : HasPosition(ev.got[k][i].Msg)
    /\ ev.op = "Add" =>
          /\ ev.emitted # <<>> =>
                /\ HasPosition(ev.m)
                /\ HasPosition(ev.emitted[1].Msg)
                /\ ev.emitted[1].Msg.Position = ev.m.Position
          /\ ~HasPosition(ev.m) => (ev.emitted = <<>> /\ ev.batch = <<>>)
\* A message without position, of a sender whose cache holds callsign, squawk,
\* ground speed and track, produced no composite.
C17_Witness ==
    /\ ev.op = "Add" /\ ev.existed /\ ~HasPosition(ev.m)
    /\ ev.emitted = <<>>
    /\ Senders[EvId].LastCallsign = "N1KE" /\ Senders[EvId].LastSquawk = "7700"
    /\ Senders[EvId].LastGroundSpeed # 0 /\ Senders[EvId].LastTrack # 0

\* C20: presence-gated cache update.  An Add for an admitted sender sets the
\* cached squawk, ground speed, track and vertical rate to the message's value
\* if the message carries the field (a carried zero or empty value included)
\* and leaves the cached value as it was otherwise, whatever the subtype.
C20_PresenceGatedUpdate ==
    [][ (AddStep /\ ev'.existed) =>
          LET m   == ev'.m
              old == Senders[m.Icao24]
              new == Senders'[m.Icao24]
          IN  /\ new.LastSquawk = IF HasSquawk(m) THEN m.Squawk ELSE old.LastSquawk
              /\ new.LastGroundSpeed =
                    IF HasGroundSpeed(m) THEN m.GroundSpeed ELSE old.LastGroundSpeed
              /\ new.LastTrack = IF HasTrack(m) THEN m.Track ELSE old.LastTrack
              /\ new.LastVerticalSpeed =
                    IF HasVerticalRate(m) THEN m.VerticalRate ELSE old.LastVerticalSpeed ]_vars
\* A message that carries ground speed 0 and nothing else left 0 as the cached
\* ground speed, next to a cached track and squawk that it did not touch.
C20_Witness ==
    /\ ev.op = "Add" /\ ev.existed
    /\ HasGroundSpeed(ev.m) /\ ev.m.GroundSpeed = 0
    /\ ~HasTrack(ev.m) /\ ~HasSquawk(ev.m)
    /\ Senders[EvId].LastGroundSpeed = 0
    /\ Senders[EvId].LastTrack = 90 /\ Senders[EvId].LastSquawk = "7700"

\* A step of the run is a call of Add or FinalFlush that reaches flush.
FlushCall == pc = "idle" /\ ev'.op \in {"Add", "FinalFlush"} /\ ev'.flushed

\* C18: backpressure.  A call blocks only in the send of flush: an Add that
\* does not flush returns; a flush that finds fewer than cap batches queued in
\* the channel queues its batch and returns; a flush that finds the channel
\* full waits, holding its batch, and changes nothing else; the channel never
\* holds more than cap batches; and when the consumer receives one batch while
\* a call waits, the waiting send can go through (with capacity 0 the batch
\* received is the one being sent), after which the call returns.
C18_Backpressure ==
    /\ [](/\ Len(FlushChannel.buf) <= FlushChannel.cap
          /\ pc = "send" => (ev.flushed /\ Messages = ev.batch)
          /\ (pc = "send" /\ canSend(FlushChannel)) => ENABLED SendResume)
    /\ [][ /\ (pc = "idle" /\ ev'.op = "Add" /\ ~ev'.flushed) => pc' = "idle"
           /\ (FlushCall /\ Len(FlushChannel.buf) < FlushChannel.cap) =>
                 /\ pc' = "idle"
                 /\ FlushChannel'.buf = Append(FlushChannel.buf, ev'.batch)
           /\ (FlushCall /\ Len(FlushChannel.buf) >= FlushChannel.cap) =>
                 /\ pc' = "send"
                 /\ FlushChannel' = FlushChannel
                 /\ lastFlush' = lastFlush
           /\ (pc = "send" /\ ev'.got # ev.got) =>
                 \/ pc' = "idle" /\ ev'.got = <<ev.batch>> /\ Messages' = <<>>
                 \/ pc' = "send" /\ canSend(FlushChannel')
           /\ (pc = "send" /\ pc' = "idle") =>
                 /\ Messages' = <<>> /\ lastFlush' = now
                 /\ \/ ev'.got = <<ev.batch>>
                    \/ FlushChannel'.buf = Append(FlushChannel.buf, ev.batch) ]_vars
\* A call that found a channel of capacity MaxCap full has returned: the
\* consumer received an older batch and the call's batch is now queued last.
C18_Witness ==
    /\ FlushChannel.cap = MaxCap
    /\ pc = "idle" /\ ev.flushed
    /\ ev.got # <<>> /\ ev.got # <<ev.batch>>
    /\ Len(FlushChannel.buf) = FlushChannel.cap
    /\ FlushChannel.buf[Len(FlushChannel.buf)] = ev.batch

\* C19: no internal locking in the track buffer.  When the calls of AddMessage
\* and Flush are serialized, no composite goes astray and no call fails: every
\* composite appended is in Tracks or in a track that Flush is about to send.
\* (Without serialization a composite can be appended to a track that Flush
\* has removed and sent: the state of C19_Witness.)
C19_SerializedLosesNothing ==
    mutex =>
        /\ strayed = <<>>
        /\ ~crashed
        /\ pcAdd = "idle" \/ pcFlush = "idle"
        /\ \A i \in 1..Len(removed) : removed[i].seen = Len(removed[i].Messages)
\* The statements interleaved: AddMessage has returned after appending to a
\* track that Flush had removed and sent, and the composite is neither in
\* Tracks nor in a batch that was sent.
C19_Witness ==
    /\ ~mutex
    /\ pcAdd = "idle" /\ pcFlush = "idle" /\ tev.op = "AddMessage"
    /\ strayed # <<>>
    /\ \E k \in 1..Len(sent) :
          sent[k] # <<>> /\ sent[k][1].Msg.Icao24 = strayed[1].Msg.Icao24
    /\ strayed[1].Msg.Icao24 \notin DOMAIN Tracks
    /\ \A k \in 1..Len(sent) : \A i \in 1..Len(sent[k]) : sent[k][i] # strayed[1]

\* C21: last-seen refresh.  An Add for a sender that has a SenderState when the
\* message is processed leaves that sender's LastSeen at the current time,
\* whatever the message carries; and a sweep removes a sender only when at
\* least MaxQuietTime has passed since its LastSeen, so a sender whose
\* messages come less than MaxQuietTime apart is never removed.
C21_LastSeenRefresh ==
    /\ []((ev.op = "Add" /\ ev.existed) => Senders[EvId].LastSeen = now)
    /\ [][ AddStep =>
             /\ \A id \in DOMAIN Senders \ DOMAIN Senders' :
                   Since(Senders[id].LastSeen, now) >= MaxQuietTime
             /\ (/\ ev'.m.Icao24 \in DOMAIN Senders
                 /\ Since(Senders[ev'.m.Icao24].LastSeen, now) < MaxQuietTime)
                   => (ev'.existed /\ Senders'[ev'.m.Icao24].LastSeen = now) ]_vars
\* A message without position and without any optional field refreshed the
\* LastSeen of its sender, in a call whose sweep ran and spared that sender.
C21_Witness ==
    /\ ev.op = "Add" /\ ev.existed /\ ev.swept
    /\ ~HasPosition(ev.m) /\ ~HasCallsign(ev.m) /\ ~HasSquawk(ev.m)
    /\ ~HasGroundSpeed(ev.m) /\ ~HasTrack(ev.m) /\ ~HasVerticalRate(ev.m)
    /\ Senders[EvId].LastSeen = now
    /\ now >= Epoch + Second

\* C22: ageout frame.  In an Add whose sweep runs, the sweep accounts for no
\* change but the deleted senders and lastAgeOut: the pending composites (those
\* of a deleted sender included) stay in Messages, in order, or leave together
\* in the flush of that call; lastFlush moves only with that flush; and every
\* sender below the quiet-time threshold, other than the sender of the message,
\* keeps its SenderState.
C22_AgeoutFrame ==
    [][ (AddStep /\ ev'.swept) =>
          LET M1 == Messages \o ev'.emitted
          IN  /\ lastAgeOut' = now
              /\ IF ev'.flushed /\ pc' = "idle"
                 THEN Messages' = <<>> /\ ev'.batch = M1 /\ lastFlush' = now
                 ELSE Messages' = M1 /\ lastFlush' = lastFlush
              /\ \A i \in 1..Len(Messages) : M1[i] = Messages[i]
              /\ \A id \in DOMAIN Senders :
                    IF Since(Senders[id].LastSeen, now) >= MaxQuietTime
                    THEN id \in ev'.removed
                    ELSE /\ id \in DOMAIN Senders'
                         /\ id # ev'.m.Icao24 => Senders'[id] = Senders[id]
              /\ UNCHANGED << now, MinPublishInterval, MaxMessageAge, MaxQuietTime >> ]_vars
\* A sweep deleted a sender whose composite is still pending in Messages,
\* and spared or admitted another sender.
C22_Witness ==
    /\ ev.op = "Add" /\ ev.swept /\ pc = "idle" /\ ~ev.flushed
    /\ ev.removed # {}
    /\ \E i \in 1..Len(Messages) :
          /\ Messages[i].Msg.Icao24 \in ev.removed
          /\ Messages[i].Msg.Icao24 \notin DOMAIN Senders
    /\ DOMAIN Senders # {}

\* C23: re-admission after ageout.  A message whose sender has no SenderState
\* when it is processed, be it because the sender was deleted earlier or
\* because the sweep at the start of this very Add deletes it, is handled as
\* from a brand-new sender: without position it is dropped and the sender stays
\* unknown; with position it creates a SenderState whose cache is empty
\* (LastSeen = now, nothing of the deleted state restored); either way no
\* composite is appended.
C23_Readmission ==
    [][ AddStep =>
          LET id      == ev'.m.Icao24
              deleted == /\ id \in DOMAIN Senders
                         /\ Since(lastAgeOut, now) >= Second
                         /\ Since(Senders[id].LastSeen, now) >= MaxQuietTime
          IN  (id \notin DOMAIN Senders \/ deleted) =>
                /\ ~ev'.existed
                /\ ev'.emitted = <<>>
                /\ deleted => id \in ev'.removed
                /\ IF HasPosition(ev'.m)
                   THEN id \in DOMAIN Senders' /\ Senders'[id] = ADSBSender(now)
                   ELSE id \notin DOMAIN Senders' ]_vars
\* The sweep of an Add deleted the sender of the position message that the
\* same Add carries; the sender had a callsign sentinel cached before, the
\* message carries a callsign itself, and the re-created cache is empty.
C23_Witness ==
    /\ ev.op = "Add" /\ ev.removed = {EvId}
    /\ HasPosition(ev.m) /\ HasCallsign(ev.m)
    /\ ~ev.existed /\ ev.emitted = <<>>
    /\ EvId \in blanked.since
    /\ Senders[EvId] = ADSBSender(now)

\* C24: the flush decision of Add looks only at the first-appended pending
\* composite and at its source-reported generation timestamp: whenever Add
\* flushes, the head of the batch is at least MaxMessageAge old by that
\* timestamp; so while the head is younger Add does not flush, whatever the
\* timestamps of the composites appended after it.
C24_HeadDecides ==
    (ev.op = "Add" /\ ev.flushed) =>
        /\ ev.batch # <<>>
        /\ Since(ev.batch[1].Msg.GeneratedTimestampUTC, now) >= MaxMessageAge
\* Add did not flush although the publish interval has passed and the
\* composite appended last is MaxMessageAge old: the head is younger.
C24_Witness ==
    /\ ev.op = "Add" /\ ~ev.flushed /\ ev.emitted # <<>> /\ pc = "idle"
    /\ Len(Messages) = 2
    /\ Since(Messages[1].Msg.GeneratedTimestampUTC, now) < MaxMessageAge
    /\ Since(Messages[2].Msg.GeneratedTimestampUTC, now) >= MaxMessageAge
    /\ Since(lastFlush, now) >= MinPublishInterval

AddMessageStep == tev'.op = "AddMessage" /\ now' = now

\* C25: AddMessage frame.  AddMessage(m) leaves m as the last element of the
\* track keyed by m's identifier; that track is new (and holds m alone) only
\* when the identifier had none, otherwise its earlier composites keep their
\* content and order; every other track, lastFlush and MaxAge are unchanged
\* and nothing is delivered.
C25_AddMessageFrame ==
    [][ AddMessageStep =>
          \E id \in DOMAIN Tracks' :
             LET old == IF id \in DOMAIN Tracks THEN Tracks[id] ELSE <<>>
                 new == Tracks'[id]
             IN  /\ Len(new) = Len(old) + 1
                 /\ \A i \in 1..Len(old) : new[i] = old[i]
                 /\ new[Len(new)] \in TrackMsgs(now)
                 /\ new[Len(new)].Msg.Icao24 = id
                 /\ DOMAIN Tracks' = DOMAIN Tracks \cup {id}
                 /\ \A o \in DOMAIN Tracks \ {id} : Tracks'[o] = Tracks[o]
                 /\ trackLastFlush' = trackLastFlush
                 /\ MaxAge' = MaxAge
                 /\ sent' = <<>> ]_vars
\* An AddMessage has left a track of two composites, the later one the
\* older by its timestamp, beside a track of the other aircraft.
C25_Witness ==
    /\ tev.op = "AddMessage" /\ sent = <<>>
    /\ \E id \in DOMAIN Tracks :
          /\ Len(Tracks[id]) = 2
          /\ Less(Tracks[id][2], Tracks[id][1])
          /\ DOMAIN Tracks # {id}

\* C26: flat-buffer conservation with a non-nil FlushChannel.  In every step
\* the composites held before it, followed by the composite the step appends,
\* either all stay in Messages, in order, with nothing handed to the channel,
\* or all leave together as the one batch handed to the channel, after which
\* Messages is empty: a composite is never dropped, never handed over twice
\* and never both pending and handed over.  What the channel holds reaches the
\* consumer unchanged, and a FinalFlush that has returned leaves nothing
\* pending.
C26_FlatConservation ==
    /\ []((FlushChannel.open /\ ev.op = "FinalFlush" /\ pc = "idle") => Messages = <<>>)
    /\ [][ FlushChannel.open =>
             LET M1   == Messages \o (IF AddStep THEN ev'.emitted ELSE <<>>)
                 buf  == FlushChannel.buf
                 buf1 == FlushChannel'.buf
             IN  \/ /\ Messages' = M1            \* nothing handed over
                    /\ buf1 = buf
                    /\ ev'.got = <<>> \/ ev' = ev
                 \/ /\ Messages' = <<>>          \* M1 put into the channel's queue
                    /\ buf1 = Append(buf, M1)
                    /\ ev'.got = <<>> \/ ev' = ev
                 \/ /\ Messages' = <<>>          \* M1 taken from the waiting sender
                    /\ buf = <<>> /\ buf1 = <<>>
                    /\ ev'.got = <<M1>>
                 \/ /\ Messages' = M1            \* the consumer takes the queue's head
                    /\ buf # <<>> /\ buf1 = Tail(buf)
                    /\ ev'.got = <<Head(buf)>> ]_vars
\* A FinalFlush has returned after the consumer took the batch of the two
\* composites that were pending.
C26_Witness ==
    /\ FlushChannel.open /\ ev.op = "FinalFlush" /\ pc = "idle"
    /\ Len(ev.batch) = 2 /\ ev.got = <<ev.batch>>
    /\ Messages = <<>> /\ FlushChannel.buf = <<>>

\* The number of times composite c occurs in sequence q, in the tracks T and
\* in the batches B.
RECURSIVE Occurs(_, _)
Occurs(c, q) ==
    IF q = <<>> THEN 0 ELSE (IF Head(q) = c THEN 1 ELSE 0) + Occurs(c, Tail(q))
RECURSIVE OccursIn(_, _, _)
OccursIn(c, T, ids) ==
    IF ids = {} THEN 0
    ELSE LET id == CHOOSE i \in ids : TRUE
         IN  Occurs(c, T[id]) + OccursIn(c, T, ids \ {id})
RECURSIVE OccursInBatches(_, _)
OccursInBatches(c, B) ==
    IF B = <<>> THEN 0 ELSE Occurs(c, Head(B)) + OccursInBatches(c, Tail(B))
\* The composites that occur in the tracks T, and in the batches B.
Held(T) == UNION { { T[id][i] : i \in 1..Len(T[id]) } : id \in DOMAIN T }
HeldInBatches(B) == UNION { { B[k][i] : i \in 1..Len(B[k]) } : k \in 1..Len(B) }

\* C27: track-buffer conservation under serialized calls.  Every composite
\* in the buffer is in the track keyed by its own identifier; an AddMessage
\* raises the number of copies held of exactly one composite by one and
\* delivers nothing; a Flush changes no count: each copy it takes out of a
\* track is in exactly one delivered batch, and what it delivers it no longer
\* holds; a batch holds composites of one identifier, and no identifier
\* gets two batches in one Flush.
C27_TrackConservation ==
    /\ [](\A id \in DOMAIN Tracks : \A i \in 1..Len(Tracks[id]) :
              Tracks[id][i].Msg.Icao24 = id)
    /\ [][ /\ AddMessageStep =>
               /\ sent' = <<>>
               /\ \E m \in TrackMsgs(now) :
                     \A c \in Held(Tracks) \cup Held(Tracks') \cup {m} :
                        OccursIn(c, Tracks', DOMAIN Tracks')
                          = OccursIn(c, Tracks, DOMAIN Tracks) + (IF c = m THEN 1 ELSE 0)
           /\ FlushStep =>
               /\ \A c \in Held(Tracks) \cup Held(Tracks') \cup HeldInBatches(sent') :
                     /\ OccursIn(c, Tracks', DOMAIN Tracks') + OccursInBatches(c, sent')
                          = OccursIn(c, Tracks, DOMAIN Tracks)
                     /\ OccursInBatches(c, sent') = 0
                          \/ c.Msg.Icao24 \notin DOMAIN Tracks'
               /\ \A k \in 1..Len(sent') :
                     /\ \A i \in 1..Len(sent'[k]) :
                           sent'[k][i].Msg.Icao24 = sent'[k][1].Msg.Icao24
                     /\ \A j \in 1..Len(sent') :
                           j # k => sent'[j][1].Msg.Icao24 # sent'[k][1].Msg.Icao24 ]_vars
\* A Flush delivered one track of two composites as one batch and kept the
\* track of the other aircraft, which was not ready.
C27_Witness ==
    /\ tev.op = "Flush" /\ ~tev.suppressed
    /\ Len(sent) = 1 /\ Len(sent[1]) = 2
    /\ \E id \in DOMAIN Tracks :
          /\ Tracks[id] # <<>>
          /\ id # sent[1][1].Msg.Icao24
    /\ sent[1][1].Msg.Icao24 \notin DOMAIN Tracks

\* The track of id can still be scanned ready within the clock's range: a
\* scan that finds it older than MaxAge is possible at the latest one second
\* after it has become ready (or after now, if it is ready already).
InTime(id) ==
    /\ id \in DOMAIN Tracks /\ Tracks[id] # <<>>
    /\ LET ready == Tracks[id][1].Msg.GeneratedTimestampUTC + MaxAge + 1
           from  == IF ready > now THEN ready ELSE now
       IN  from + Second <= Epoch + Horizon
DeliveredTrack(id) ==
    /\ tev.op = "Flush" /\ ~tev.suppressed
    /\ \E k \in 1..Len(sent) : sent[k] # <<>> /\ sent[k][1].Msg.Icao24 = id

\* C28: track-buffer liveness.  With Flush invoked again and again while
\* time passes, and each batch taken as it is sent, every track is eventually
\* delivered, later AddMessage calls for the same aircraft notwithstanding
\* (stated for the tracks whose delivery falls within the range of the clock).
C28_TrackLiveness == \A id \in Icaos : InTime(id) ~> DeliveredTrack(id)
\* A Flush delivered a track of two composites of which one, appended after
\* the first, is by itself not older than MaxAge.
C28_Witness ==
    /\ tev.op = "Flush" /\ ~tev.suppressed
    /\ \E k \in 1..Len(sent) :
          /\ Len(sent[k]) = 2
          /\ Since(sent[k][1].Msg.GeneratedTimestampUTC, now) > MaxAge
          /\ Since(sent[k][2].Msg.GeneratedTimestampUTC, now) <= MaxAge

\* C29: the composite agrees with the cache.  Every composite Add emits has
\* ground speed, track, vertical rate, callsign and squawk equal to the values
\* cached for its sender right after the update from the same message (the
\* messages come from FromSBS1, which leaves a field that is not carried at
\* its zero value); and a non-zero value carried by the message is the one in
\* the composite.
C29_CompositeAgreesWithCache ==
    (ev.op = "Add" /\ ev.emitted # <<>>) =>
        LET cm == ev.emitted[1].Msg
            s  == Senders[EvId]
        IN  /\ EvId \in DOMAIN Senders
            /\ cm.GroundSpeed  = s.LastGroundSpeed
            /\ cm.Track        = s.LastTrack
            /\ cm.VerticalRate = s.LastVerticalSpeed
            /\ cm.Callsign     = s.LastCallsign
            /\ cm.Squawk       = s.LastSquawk
            /\ (HasGroundSpeed(ev.m) /\ ev.m.GroundSpeed # 0) => cm.GroundSpeed = ev.m.GroundSpeed
            /\ (HasTrack(ev.m) /\ ev.m.Track # 0) => cm.Track = ev.m.Track
            /\ (HasVerticalRate(ev.m) /\ ev.m.VerticalRate # 0)
                  => cm.VerticalRate = ev.m.VerticalRate
            /\ (HasCallsign(ev.m) /\ ev.m.Callsign # "") => cm.Callsign = ev.m.Callsign
            /\ (HasSquawk(ev.m) /\ ev.m.Squawk # "") => cm.Squawk = ev.m.Squawk
\* A position message that carries a new ground speed and nothing else was
\* emitted with that ground speed and with the callsign and track cached from
\* an earlier message.
C29_Witness ==
    /\ ev.op = "Add" /\ ev.emitted # <<>>
    /\ HasGroundSpeed(ev.m) /\ ~HasCallsign(ev.m) /\ ~HasTrack(ev.m)
    /\ ev.emitted[1].Msg.GroundSpeed = 304
    /\ ev.emitted[1].Msg.Callsign = "N1KE"
    /\ ev.emitted[1].Msg.Track = 90
    /\ Senders[EvId].LastGroundSpeed = 304

\* C30: admission caches nothing but the time.  The SenderState an admission
\* creates has LastSeen at the current time and every cached field at its
\* zero value, whatever the admitting position message carries; and so a
\* composite emitted by the call right after the admission holds the values
\* of its own message alone (with the sentinel for a blank callsign it
\* carries), none of the admitting message.
C30_AdmissionCachesNothing ==
    /\ [](( ev.op = "Add" /\ ~ev.existed /\ HasPosition(ev.m) ) =>
             /\ EvId \in DOMAIN Senders
             /\ Senders[EvId] = ADSBSender(now))
    /\ [][ ( AddStep /\ ev.op = "Add" /\ ~ev.existed /\ HasPosition(ev.m)
                     /\ ev'.emitted # <<>> ) =>
             LET cm == ev'.emitted[1].Msg
                 m  == ev'.m
             IN  /\ cm.GroundSpeed  = m.GroundSpeed
                 /\ cm.Track        = m.Track
                 /\ cm.VerticalRate = m.VerticalRate
                 /\ cm.Squawk       = m.Squawk
                 /\ cm.Callsign     = IF HasCallsign(m) /\ m.Callsign = ""
                                      THEN BlankCallsign ELSE m.Callsign ]_vars
\* The admitting position message carried callsign, squawk, ground speed,
\* track and vertical rate, and the cache of the new sender is empty.
C30_Witness ==
    /\ ev.op = "Add" /\ ~ev.existed /\ HasPosition(ev.m)
    /\ HasCallsign(ev.m) /\ HasSquawk(ev.m) /\ HasGroundSpeed(ev.m)
    /\ HasTrack(ev.m) /\ HasVerticalRate(ev.m)
    /\ Senders[EvId].LastCallsign = "" /\ Senders[EvId].LastSquawk = ""
    /\ Senders[EvId].LastGroundSpeed = 0 /\ Senders[EvId].LastTrack = 0
    /\ Senders[EvId].LastVerticalSpeed = 0
    /\ Senders[EvId].LastSeen = now

\* C31: no empty batch from Add.  An Add that flushes has at least one
\* composite to send, the batch it waits to hand over is that non-empty
\* Messages, and every batch the consumer takes from an Add holds at least
\* one composite; the consumer gets an empty batch only from a FinalFlush
\* that found nothing pending.
C31_NoEmptyBatchFromAdd ==
    /\ (ev.op = "Add" /\ ev.flushed) =>
          /\ Len(ev.batch) >= 1
          /\ pc = "send" => (Messages = ev.batch /\ Len(Messages) >= 1)
    /\ (ev.op = "Add" /\ ev.got # <<>>) => Len(ev.got[1]) >= 1
    /\ (ev.got # <<>> /\ ev.got[1] = <<>>) =>
          (ev.op = "FinalFlush" /\ ev.batch = <<>>)
    /\ \A i \in 1..Len(FlushChannel.buf) :
          FlushChannel.buf[i] = <<>> => ev.op # "Add"
\* The consumer took the batch of an Add that flushed a single composite.
C31_Witness ==
    /\ FlushChannel.open /\ ev.op = "Add" /\ ev.flushed /\ pc = "idle"
    /\ Len(ev.batch) = 1 /\ ev.got = <<ev.batch>>
\* The other case of C31: the consumer took an empty batch, sent by a
\* FinalFlush called while nothing was pending.
C31_EmptyFromFinalFlush ==
    /\ FlushChannel.open /\ ev.op = "FinalFlush" /\ pc = "idle"
    /\ ev.batch = <<>> /\ ev.got = << <<>> >>

\* C32: track-buffer start-up suppression.  Until a Flush has passed the rate
\* limiter, lastFlush is the construction time; every Flush called less than
\* one second after construction is suppressed: it delivers nothing and
\* leaves the tracks and lastFlush alone, also when a track older than MaxAge
\* is present; the first Flush called one second or more after construction
\* is not suppressed and sets lastFlush to the time of the call.
C32_StartupSuppression ==
    /\ [](now = Epoch => trackLastFlush = Epoch)
    /\ [][ FlushStep =>
             /\ Since(Epoch, now) < Second =>
                   /\ tev'.suppressed
                   /\ sent' = <<>>
                   /\ Tracks' = Tracks
                   /\ trackLastFlush' = Epoch
             /\ (Since(Epoch, now) >= Second /\ trackLastFlush = Epoch) =>
                   /\ ~tev'.suppressed
                   /\ trackLastFlush' = now ]_vars
\* A Flush called less than one second after construction was suppressed
\* although a track older than MaxAge is present.
C32_Witness ==
    /\ tev.op = "Flush" /\ tev.suppressed /\ sent = <<>>
    /\ Since(Epoch, now) < Second
    /\ trackLastFlush = Epoch
    /\ \E id \in DOMAIN Tracks : Age(Tracks[id], now) > MaxAge
\* The other case of C32: the first Flush called one second after
\* construction passed the rate limiter and delivered a track.
C32_FirstFlushRuns ==
    /\ tev.op = "Flush" /\ ~tev.suppressed
    /\ now = Epoch + Second /\ trackLastFlush = now
    /\ sent # <<>>

====
